---- MODULE Spec2Model ----
(***************************************************************************)
(* Model of detect_insertion_events.py: frame-by-frame differencing        *)
(* detection of insertion events in a TIRF image stack, and the command    *)
(* line run (main) that loads the stack, detects and writes the CSV.       *)
(*                                                                         *)
(* Indices are 0-based as in the source: a stack is                        *)
(*   [T, Y, X, dtype, px]   with px[t][<<y, x>>] the sample of frame t.    *)
(* np.std(stack[0]) is kept exactly as the pair [sq, n] standing for       *)
(* sqrt(sq)/n (sq = n*sum(x^2) - sum(x)^2, n = Y*X); n = 0 stands for NaN. *)
(***************************************************************************)
EXTENDS Integers, Sequences, FiniteSets, TLC

\* ------------------------------------------------------------------ bounds
\* size of an input stack: its number of frames plus its number of non-zero
\* samples
MaxSize == 6

\* the non-zero sample values
PixVals == {1, 2}
\* frame shapes (Y, X) of the input stacks, two of them with Y*X = 0
Shapes == {<<0, 2>>, <<2, 0>>, <<1, 3>>, <<2, 2>>}
\* values of --threshold, its default 5.0 among them
Thresholds == {1, 3, 5}
\* sample types of the TIFF pages
DTypes == {"int64", "uint8"}

\* ------------------------------------------------------- arrays and dtypes
Cells(Y, X) == (0 .. Y - 1) \X (0 .. X - 1)

\* numpy elementwise a - b in the array's own dtype: an unsigned 8-bit
\* difference wraps around
Subtract(dtype, a, b) ==
    IF dtype = "uint8" THEN (a - b) % 256 ELSE a - b

RECURSIVE SumOver(_, _)
SumOver(f, S) ==
    IF S = {} THEN 0
    ELSE LET c == CHOOSE c \in S : TRUE IN f[c] + SumOver(f, S \ {c})

\* np.std(frame): population standard deviation, as sqrt(sq)/n
Std(frame, Y, X) ==
    LET n  == Y * X
        s  == SumOver(frame, Cells(Y, X))
        q  == SumOver([c \in Cells(Y, X) |-> frame[c] * frame[c]], Cells(Y, X))
    IN [sq |-> n * q - s * s, n |-> n]

\* variant of Exceeds: >= in place of >
ExceedsNonStrict(d, threshold, std) ==
    IF std.n = 0 THEN FALSE
    ELSE IF threshold >= 0
         THEN d >= 0 /\ d * d * std.n * std.n >= threshold * threshold * std.sq
         ELSE d >= 0 \/ d * d * std.n * std.n <= threshold * threshold * std.sq

\* variant of Exceeds: the comparison reversed (not above the threshold)
ExceedsReversed(d, threshold, std) ==
    IF std.n = 0 THEN FALSE
    ELSE IF threshold >= 0
         THEN d <= 0 \/ d * d * std.n * std.n < threshold * threshold * std.sq
         ELSE d < 0 /\ d * d * std.n * std.n > threshold * threshold * std.sq

\* d > threshold * bg_std, with bg_std = sqrt(std.sq)/std.n, compared exactly
\* by signs and squares (d and threshold are integers); FALSE on NaN
Exceeds(d, threshold, std) ==
    IF std.n = 0 THEN FALSE
    ELSE IF threshold >= 0
         THEN d > 0 /\ d * d * std.n * std.n > threshold * threshold * std.sq
         ELSE \/ d > 0
              \/ d = 0 /\ std.sq > 0
              \/ d < 0 /\ d * d * std.n * std.n < threshold * threshold * std.sq

\* diff = stack[t] - stack[t-1]
Diff(stk, tt) ==
    [c \in Cells(stk.Y, stk.X) |-> Subtract(stk.dtype, stk.px[tt][c], stk.px[tt - 1][c])]

\* candidates = diff > threshold * bg_std, as the set of true cells
Candidates(d, threshold, std) ==
    {c \in DOMAIN d : Exceeds(d[c], threshold, std)}

\* ------------------------------------------------------ ndimage.label
Abs(n) == IF n < 0 THEN -n ELSE n

\* variant of Adjacent: a full 3x3 structuring element
Adjacent8(c1, c2) ==
    c1 # c2 /\ Abs(c1[1] - c2[1]) <= 1 /\ Abs(c1[2] - c2[2]) <= 1

\* the default structuring element of ndimage.label: edge neighbours only
Adjacent(c1, c2) ==
    Abs(c1[1] - c2[1]) + Abs(c1[2] - c2[2]) = 1

RECURSIVE Flood(_, _)
Flood(mask, seen) ==
    LET next == seen \cup {c \in mask : \E s \in seen : Adjacent(c, s)}
    IN IF next = seen THEN seen ELSE Flood(mask, next)

RasterCell(i, X) == <<i \div X, i % X>>

RECURSIVE LabelFrom(_, _, _, _, _)
LabelFrom(mask, Y, X, i, found) ==
    IF i >= Y * X THEN found
    ELSE LET c == RasterCell(i, X)
         IN IF c \in mask /\ \A k \in 1 .. Len(found) : c \notin found[k]
            THEN LabelFrom(mask, Y, X, i + 1, Append(found, Flood(mask, {c})))
            ELSE LabelFrom(mask, Y, X, i + 1, found)

Reverse(s) == [k \in 1 .. Len(s) |-> s[Len(s) + 1 - k]]

\* variant of Label: labels numbered from the last component found
LabelReversed(mask, Y, X) == Reverse(LabelFrom(mask, Y, X, 0, <<>>))

\* labeled, num_features = ndimage.label(candidates): labeled[i] is the set of
\* cells with label i, num_features is Len(labeled)
Label(mask, Y, X) == LabelFrom(mask, Y, X, 0, <<>>)

\* ------------------------------------------------------ event extraction
Rows(comp) == [c \in comp |-> c[1]]
Cols(comp) == [c \in comp |-> c[2]]

\* variant of Centroid: means rounded to nearest
CentroidRounded(comp) ==
    LET n == Cardinality(comp)
    IN <<(2 * SumOver(Rows(comp), comp) + n) \div (2 * n),
         (2 * SumOver(Cols(comp), comp) + n) \div (2 * n)>>

\* cy = int(np.mean(y)), cx = int(np.mean(x))
Centroid(comp) ==
    LET n == Cardinality(comp)
    IN <<SumOver(Rows(comp), comp) \div n, SumOver(Cols(comp), comp) \div n>>

\* variant of EventOf: the earlier frame of the pair as frame
EventOfEarlierFrame(tt, comp, d) ==
    LET c == Centroid(comp)
    IN [frame |-> tt - 1, y |-> c[1], x |-> c[2], intensity |-> d[c]]

EventOf(tt, comp, d) ==
    LET c == Centroid(comp)
    IN [frame |-> tt, y |-> c[1], x |-> c[2], intensity |-> d[c]]

\* the body of `for i in range(1, num_features+1)` over one labelled mask
RECURSIVE EventsOfLabels(_, _, _, _)
EventsOfLabels(tt, lab, d, i) ==
    IF i > Len(lab) THEN <<>>
    ELSE IF lab[i] = {} THEN EventsOfLabels(tt, lab, d, i + 1)
    ELSE <<EventOf(tt, lab[i], d)>> \o EventsOfLabels(tt, lab, d, i + 1)

\* one iteration of `for t in range(1, T)`
EventsOfPair(stk, tt, threshold, std) ==
    LET d == Diff(stk, tt)
    IN EventsOfLabels(tt, Label(Candidates(d, threshold, std), stk.Y, stk.X), d, 1)

RECURSIVE EventsFrom(_, _, _, _)
EventsFrom(stk, tt, threshold, std) ==
    IF tt >= stk.T THEN <<>>
    ELSE EventsOfPair(stk, tt, threshold, std) \o EventsFrom(stk, tt + 1, threshold, std)

\* detect_insertions_slow(stack, threshold): the outcome of the call, either
\* the returned list or the exception raised. With T = 0, stack[0] at line 48
\* raises IndexError and nothing is returned.
DetectInsertionsSlow(stk, threshold) ==
    IF stk.T = 0
    THEN [raised |-> "IndexError"]
    ELSE [raised |-> "none",
          events |-> EventsFrom(stk, 1, threshold, Std(stk.px[0], stk.Y, stk.X))]

\* ------------------------------------------------------ the CSV file
IntText(n) == ToString(n)

\* one row of DataFrame.to_csv(index=False)
RowText(e) ==
    IntText(e.frame) \o "," \o IntText(e.y) \o "," \o IntText(e.x) \o ","
        \o IntText(e.intensity)

\* the header line: the columns of pd.DataFrame(events) are the keys of the
\* records, and a DataFrame built from an empty list has no columns, so its
\* header line names none
HeaderText(evs) == IF Len(evs) = 0 THEN "" ELSE "frame,y,x,intensity"

CsvText(evs) == <<HeaderText(evs)>> \o [k \in 1 .. Len(evs) |-> RowText(evs[k])]

\* ------------------------------------------------------ inputs
RECURSIVE SubsetsUpTo(_, _)
SubsetsUpTo(S, k) ==
    IF k = 0 THEN {{}}
    ELSE LET prev == SubsetsUpTo(S, k - 1)
         IN prev \cup {s \cup {x} : s \in prev, x \in S}

Samples(T, Y, X) == (0 .. T - 1) \X (0 .. Y - 1) \X (0 .. X - 1)

\* the stack with the given non-zero samples on a zero background
MakeStack(T, Y, X, dtype, vals) ==
    [T |-> T, Y |-> Y, X |-> X, dtype |-> dtype,
     px |-> [tt \in 0 .. T - 1 |->
               [c \in Cells(Y, X) |->
                  IF <<tt, c[1], c[2]>> \in DOMAIN vals
                  THEN vals[<<tt, c[1], c[2]>>] ELSE 0]]]

NoStack == [T |-> 0, Y |-> 0, X |-> 0, dtype |-> "none", px |-> <<>>]
NoStd == [sq |-> 0, n |-> 0]
NoFile == <<>>
StaleFile == <<"frame,y,x,intensity", "7,7,7,7">>

VARIABLES
    input,      \* the file at args.input: [kind, stack]
    threshold,  \* args.threshold
    pc,         \* position of main
    err,        \* the exception that ended the run, "none" if none
    stack,      \* the loaded stack
    bg_std,     \* np.std(stack[0])
    t,          \* loop variable of detect_insertions_slow
    diff,       \* locals of the last iteration
    candidates,
    labeled,
    events,     \* the list being accumulated
    csv,        \* the file at args.output, NoFile if absent
    sinkCalls   \* number of calls of save_events_to_csv

vars == <<input, threshold, pc, err, stack, bg_std, t, diff, candidates,
          labeled, events, csv, sinkCalls>>

Init ==
    /\ \/ input \in {[kind |-> "missing", stack |-> NoStack],
                     [kind |-> "unreadable", stack |-> NoStack]}
       \/ \E T \in 0 .. MaxSize, sh \in Shapes, dtype \in DTypes :
            \E lit \in SubsetsUpTo(Samples(T, sh[1], sh[2]), MaxSize - T) :
               \E vals \in [lit -> PixVals] :
                  input = [kind |-> "tiff",
                           stack |-> MakeStack(T, sh[1], sh[2], dtype, vals)]
    /\ threshold \in Thresholds
    /\ pc = "start"
    /\ err = "none"
    /\ stack = NoStack
    /\ bg_std = NoStd
    /\ t = 0
    /\ diff = <<>>
    /\ candidates = {}
    /\ labeled = <<>>
    /\ events = <<>>
    /\ csv \in {NoFile, StaleFile}
    /\ sinkCalls = 0

\* main, lines 87-92: the existence check and load_tiff_stack
OpenInput ==
    /\ pc = "start"
    /\ \/ /\ input.kind = "missing"
          /\ pc' = "exit"
          /\ err' = "SystemExit"
          /\ stack' = stack
       \/ /\ input.kind = "unreadable"
          /\ pc' = "error"
          /\ err' = "TiffFileError"
          /\ stack' = stack
       \/ /\ input.kind = "tiff"
          /\ pc' = "loaded"
          /\ err' = err
          /\ stack' = input.stack
    /\ UNCHANGED <<input, threshold, bg_std, t, diff, candidates, labeled,
                   events, csv, sinkCalls>>

\* variant of EstimateNoise: the IndexError is recorded and the run goes on
EstimateNoiseSwallow ==
    /\ pc = "loaded"
    /\ \/ /\ stack.T = 0
          /\ pc' = "loop"
          /\ err' = "IndexError"
          /\ bg_std' = bg_std
       \/ /\ stack.T > 0
          /\ pc' = "loop"
          /\ err' = err
          /\ bg_std' = Std(stack.px[0], stack.Y, stack.X)
    /\ t' = 1
    /\ events' = <<>>
    /\ UNCHANGED <<input, threshold, stack, diff, candidates, labeled, csv,
                   sinkCalls>>

\* detect_insertions_slow, lines 45-49: stack[0] raises IndexError when T = 0
EstimateNoise ==
    /\ pc = "loaded"
    /\ \/ /\ stack.T = 0
          /\ pc' = "error"
          /\ err' = "IndexError"
          /\ bg_std' = bg_std
          /\ t' = t
       \/ /\ stack.T > 0
          /\ pc' = "loop"
          /\ err' = err
          /\ bg_std' = Std(stack.px[0], stack.Y, stack.X)
          /\ t' = 1
    /\ events' = <<>>
    /\ UNCHANGED <<input, threshold, stack, diff, candidates, labeled, csv,
                   sinkCalls>>

\* detect_insertions_slow, lines 50-70: one iteration of the frame loop
ProcessFramePair ==
    /\ pc = "loop"
    /\ t < stack.T
    /\ diff' = Diff(stack, t)
    /\ candidates' = Candidates(diff', threshold, bg_std)
    /\ labeled' = Label(candidates', stack.Y, stack.X)
    /\ events' = events \o EventsOfLabels(t, labeled', diff', 1)
    /\ t' = t + 1
    /\ UNCHANGED <<input, threshold, pc, err, stack, bg_std, csv, sinkCalls>>

\* lines 71, 97-98 and save_events_to_csv: the loop is over, the list is
\* returned and written
SaveEvents ==
    /\ pc = "loop"
    /\ t >= stack.T
    /\ csv' = CsvText(events)
    /\ sinkCalls' = sinkCalls + 1
    /\ pc' = "done"
    /\ UNCHANGED <<input, threshold, err, stack, bg_std, t, diff, candidates,
                   labeled, events>>

Next == OpenInput \/ EstimateNoise \/ ProcessFramePair \/ SaveEvents

Spec == Init /\ [][Next]_vars

\* ------------------------------------------------------------ properties
\* at least one frame pair has been processed: diff, candidates and labeled
\* are those of the pair (t-2, t-1)
Processed == pc \in {"loop", "done"} /\ t >= 2

\* the Events appended for the pair processed last
LastEvents == SelectSeq(events, LAMBDA e : e.frame = t - 1)

EdgeNeighbours(c1, c2) ==
    \/ c1[1] = c2[1] /\ (c1[2] = c2[2] + 1 \/ c2[2] = c1[2] + 1)
    \/ c1[2] = c2[2] /\ (c1[1] = c2[1] + 1 \/ c2[1] = c1[1] + 1)

Touching(c1, c2) ==
    /\ c1 # c2
    /\ c1[1] - c2[1] \in {-1, 0, 1}
    /\ c1[2] - c2[2] \in {-1, 0, 1}

\* C1 as stated: for a fixed stack and multipliers m1 <= m2, the run with m2
\* returns at most as many Events as the run with m1.
C1_EventCountMonotone ==
    pc = "done" =>
        \A m \in Thresholds :
            /\ DetectInsertionsSlow(stack, m).raised = "none"
            /\ m >= threshold
                  => Len(DetectInsertionsSlow(stack, m).events) <= Len(events)
            /\ m <= threshold
                  => Len(events) <= Len(DetectInsertionsSlow(stack, m).events)

\* C1 amended: for a fixed stack, every frame pair and multipliers m1 <= m2,
\* the Candidate Mask of m2 is a subset of the Candidate Mask of m1 (the number
\* of candidate cells never increases; the number of Events may).
C1_CandidateMonotone ==
    Processed =>
        \A m \in Thresholds :
            /\ m >= threshold => Candidates(diff, m, bg_std) \subseteq candidates
            /\ m <= threshold => candidates \subseteq Candidates(diff, m, bg_std)

\* a larger multiplier removes a candidate cell and so splits a component
C1_Witness ==
    /\ Processed
    /\ \E m \in Thresholds :
          /\ m > threshold
          /\ Candidates(diff, m, bg_std) # candidates
          /\ Len(Label(Candidates(diff, m, bg_std), stack.Y, stack.X)) > Len(labeled)

\* C2 as stated: components are 8-connected, so two candidate cells that touch
\* (diagonally included) are in the same component and a diagonal group gives
\* one Event.
C2_EightConnectivity ==
    Processed =>
        \A c1 \in candidates, c2 \in candidates :
            Touching(c1, c2) =>
                \E k \in 1 .. Len(labeled) : c1 \in labeled[k] /\ c2 \in labeled[k]

\* C2 amended: components are 4-connected. The components are disjoint, cover
\* the candidate cells, have no candidate edge neighbour outside, and cannot be
\* cut in two parts with no edge between them; each gives one Event, so cells
\* linked only diagonally give one Event each.
C2_FourConnectivity ==
    Processed =>
        /\ UNION {labeled[k] : k \in 1 .. Len(labeled)} = candidates
        /\ Len(LastEvents) = Len(labeled)
        /\ \A k \in 1 .. Len(labeled) :
              /\ labeled[k] # {}
              /\ \A j \in 1 .. Len(labeled) : j # k => labeled[j] \cap labeled[k] = {}
              /\ \A c1 \in labeled[k], c2 \in candidates \ labeled[k] :
                    ~EdgeNeighbours(c1, c2)
              /\ \A A \in SUBSET labeled[k] :
                    (A # {} /\ A # labeled[k]) =>
                        \E c1 \in A, c2 \in labeled[k] \ A : EdgeNeighbours(c1, c2)

\* two candidate cells touching only diagonally gave two Events
C2_Witness ==
    /\ Processed
    /\ Cardinality(candidates) = 2
    /\ \E c1 \in candidates, c2 \in candidates :
          Touching(c1, c2) /\ ~EdgeNeighbours(c1, c2)
    /\ Len(LastEvents) = 2

\* C3 as stated: the Difference Image is the signed frame[t] - frame[t-1] for
\* every sample type, and a pixel that got darker is never a candidate when
\* the threshold is not negative.
C3_SignedDifference ==
    Processed =>
        \A c \in Cells(stack.Y, stack.X) :
            /\ diff[c] = stack.px[t - 1][c] - stack.px[t - 2][c]
            /\ (stack.px[t - 1][c] < stack.px[t - 2][c] /\ threshold >= 0)
                  => c \notin candidates

\* C4: at every point of a run the frame values of the Events are
\* non-decreasing in output order, lie in 1..T-1 and are never 0.
C4_FrameOrder ==
    \A i \in 1 .. Len(events) :
        /\ events[i].frame \in 1 .. stack.T - 1
        /\ events[i].frame # 0
        /\ i < Len(events) => events[i].frame <= events[i + 1].frame

\* a finished run with Events of frame 1 and of frame 2
C4_Witness ==
    /\ pc = "done"
    /\ \E i \in 1 .. Len(events), j \in 1 .. Len(events) :
          i < j /\ events[i].frame = 1 /\ events[j].frame = 2

Identical(stk) == \A tt \in 1 .. stk.T - 1 : stk.px[tt] = stk.px[tt - 1]

\* C5: a stack (of at least one frame) whose frames are all identical to their
\* predecessor gives no Event and no error, for every positive multiplier,
\* also when the reference standard deviation is 0.
C5_EmptyDifference ==
    (input.kind = "tiff" /\ input.stack.T >= 1 /\ Identical(input.stack)
        /\ threshold > 0)
    => /\ events = <<>>
       /\ err = "none"

\* a finished run over identical frames with a noisy reference frame
C5_Witness ==
    /\ pc = "done"
    /\ stack.T >= 2
    /\ Identical(stack)
    /\ bg_std.sq > 0
    /\ events = <<>>

\* C6 as stated: a stack with T = 0 or Y*X = 0 makes the noise estimation fail
\* with InvalidInput, and nothing else happens.
C6_DegenerateRejected ==
    (input.kind = "tiff" /\ pc \notin {"start", "loaded"}
        /\ (stack.T = 0 \/ stack.Y * stack.X = 0))
    => pc = "error" /\ err = "InvalidInput" /\ events = <<>>

\* the events file is written by no step but the one that ends a run whose
\* frame pairs were all processed without error
WritesOnlyAtEnd ==
    (csv' # csv \/ sinkCalls' # sinkCalls)
        => (pc = "loop" /\ t >= stack.T /\ err = "none" /\ pc' = "done")

\* a failed run stays failed and leaves the events file as it was
FailureIsFinal ==
    pc \in {"exit", "error"} => (pc' = pc /\ csv' = csv)

\* C7: the sink is called at most once and only after every frame pair was
\* processed without error; a run whose input is missing or unreadable, or
\* whose detection raises, ends in an error state and never touches the
\* events file.
C7_FailFast ==
    /\ [](/\ sinkCalls <= 1
          /\ sinkCalls = 1 => (pc = "done" /\ err = "none" /\ t >= stack.T
                               /\ input.kind = "tiff" /\ stack.T >= 1)
          /\ err # "none" => (pc \in {"exit", "error"} /\ sinkCalls = 0)
          /\ input.kind = "missing" => pc \in {"start", "exit"}
          /\ input.kind = "unreadable" => pc \in {"start", "error"}
          /\ (input.kind = "tiff" /\ input.stack.T = 0)
                => pc \in {"start", "loaded", "error"})
    /\ [][WritesOnlyAtEnd]_vars
    /\ [][FailureIsFinal]_vars

\* a run that failed in the detection and left the existing events file alone
C7_Witness ==
    /\ pc = "error"
    /\ err = "IndexError"
    /\ csv = StaleFile
    /\ sinkCalls = 0

\* C8: every component of the pair processed last gave exactly one Event, at
\* the truncated means of its rows and columns, inside the frame, with the
\* Difference Image value of that cell as intensity, member cell or not.
C8_CentroidSample ==
    Processed =>
        /\ Len(LastEvents) = Len(labeled)
        /\ \A k \in 1 .. Len(labeled) :
              LET K == labeled[k]
                  e == LastEvents[k]
                  n == Cardinality(K)
              IN /\ n * e.y <= SumOver(Rows(K), K)
                 /\ SumOver(Rows(K), K) < n * (e.y + 1)
                 /\ n * e.x <= SumOver(Cols(K), K)
                 /\ SumOver(Cols(K), K) < n * (e.x + 1)
                 /\ e.y \in 0 .. stack.Y - 1
                 /\ e.x \in 0 .. stack.X - 1
                 /\ e.intensity = diff[<<e.y, e.x>>]

\* an Event whose coordinates are not a cell of its component
C8_Witness ==
    /\ Processed
    /\ Len(LastEvents) = Len(labeled)
    /\ \E k \in 1 .. Len(labeled) :
          <<LastEvents[k].y, LastEvents[k].x>> \notin labeled[k]

\* C9 as stated: the written file starts with the header frame,y,x,intensity
\* and has one row per Event in order, also for the empty collection.
C9_CsvHeaderAndRows ==
    pc = "done" =>
        /\ Len(csv) = Len(events) + 1
        /\ csv[1] = "frame,y,x,intensity"
        /\ \A k \in 1 .. Len(events) : csv[k + 1] = RowText(events[k])

FirstTouched(K, X) ==
    CHOOSE i \in {c[1] * X + c[2] : c \in K} :
        \A j \in {c[1] * X + c[2] : c \in K} : i <= j

Spikes(frame) == {c \in DOMAIN frame : frame[c] > 0}

\* frame t-2 is all zeros, the reference std is 0 and the spikes of frame t-1
\* do not touch each other
SpikeScenario ==
    /\ Processed
    /\ bg_std.sq = 0
    /\ Spikes(stack.px[t - 2]) = {}
    /\ \A c1 \in Spikes(stack.px[t - 1]), c2 \in Spikes(stack.px[t - 1]) :
          ~Touching(c1, c2)

\* C10: within a frame pair the Events come in the row-major order of their
\* component's first cell; k well-separated spikes over a zero frame give
\* exactly k Events of frame t, at the spikes, with their values, in
\* row-major order.
C10_DiscoveryOrder ==
    /\ Processed =>
          /\ Len(LastEvents) = Len(labeled)
          /\ \A i \in 1 .. Len(labeled), j \in 1 .. Len(labeled) :
                i < j => FirstTouched(labeled[i], stack.X) < FirstTouched(labeled[j], stack.X)
    /\ SpikeScenario =>
          LET sp == Spikes(stack.px[t - 1])
          IN /\ Len(LastEvents) = Cardinality(sp)
             /\ \A k \in 1 .. Len(LastEvents) :
                   LET e == LastEvents[k]
                       c == <<e.y, e.x>>
                   IN /\ e.frame = t - 1
                      /\ c \in sp
                      /\ e.intensity = stack.px[t - 1][c]
                      /\ Cardinality({b \in sp : b[1] < c[1] \/ (b[1] = c[1] /\ b[2] < c[2])})
                            = k - 1

\* two well-separated spikes gave two Events
C10_Witness ==
    /\ SpikeScenario
    /\ Cardinality(Spikes(stack.px[t - 1])) = 2
    /\ Len(LastEvents) = 2

====
